---- MODULE Spec2Model ----
(***************************************************************************)
(* Startup sequencer of the Ghost server (core/server/index.js).            *)
(*                                                                         *)
(* One installation is started up to MaxRuns times.  The installation      *)
(* state (persisted dbHash settings, first-run notifications, the socket   *)
(* file, configuration) survives a restart; everything else is the state   *)
(* of the running process.  A promise continuation runs in the same step   *)
(* as the settlement that triggers it: the promise library drains its      *)
(* handler queue before the event loop delivers another I/O completion.    *)
(***************************************************************************)
EXTENDS Integers, Sequences, FiniteSets, TLC

\* Number of startups of the installation that are explored.
MaxRuns == 2

\* Largest process.uptime() at which a signal is delivered, in half seconds.
MaxUptime == 3

\* var dbHash; (declared, not assigned): the value JavaScript calls undefined.
NoHash == 0

(***************************************************************************)
(* JavaScript values that getSocket() handles.                             *)
(***************************************************************************)
JsStr(s) == [t |-> "string", s |-> s]
JsTrue == [t |-> "boolean", s |-> "true"]
JsFalse == [t |-> "boolean", s |-> "false"]
JsUndefined == [t |-> "undefined", s |-> ""]

\* _.isString
isString(x) == x.t = "string"

\* JavaScript truthiness, as used by `if (getSocket())` and `getSocket() || ...`
Truthy(x) ==
    CASE x.t = "string" -> x.s # ""
      [] x.t = "boolean" -> x.s = "true"
      [] OTHER -> FALSE

\* process.env.NODE_ENV values that the file distinguishes
Envs == {"production", "development"}

\* path.join(__dirname, '../content/', process.env.NODE_ENV + '.socket')
\* with __dirname = core/server
DefaultSocketPath(env) ==
    CASE env = "production" -> "core/content/production.socket"
      [] env = "development" -> "core/content/development.socket"

\* config().server : with or without a 'socket' key; the key holds a path,
\* the empty string, or a non-string (socket: true)
ServerConfigs ==
    { [hasSocket |-> FALSE, socket |-> JsUndefined, host |-> "127.0.0.1", port |-> "2368"],
      [hasSocket |-> TRUE, socket |-> JsStr("/tmp/ghost.sock"), host |-> "127.0.0.1", port |-> "2368"],
      [hasSocket |-> TRUE, socket |-> JsStr(""), host |-> "127.0.0.1", port |-> "2368"],
      [hasSocket |-> TRUE, socket |-> JsTrue, host |-> "127.0.0.1", port |-> "2368"] }

\* Variant: a 'socket' key that holds no string is taken as "no socket".
getSocketNoDefault(srv, env) ==
    IF srv.hasSocket /\ isString(srv.socket) THEN srv.socket ELSE JsFalse

\* function getSocket() of the configuration callback
getSocket(srv, env) ==
    IF srv.hasSocket
    THEN (IF isString(srv.socket) THEN srv.socket ELSE JsStr(DefaultSocketPath(env)))
    ELSE JsFalse

VARIABLES
    \* ---- the installation: survives a restart
    nodeOk,          \* semver.satisfies(process.versions.node, packageInfo.engines.node)
    nodeEnv,         \* process.env.NODE_ENV
    server,          \* config().server
    settingsDbHash,  \* values of the persisted settings rows with key 'dbHash', in order of insertion
    notifications,   \* number of stored notifications with id 'ghost-first-run'
    uuidCount,       \* number of uuid.v4() values generated so far; the next one is uuidCount + 1
    sockFiles,       \* socket files on disk: path -> "stale" | "created" | "chmodded"
    runNo,           \* the number of the running startup
    prev,            \* summary of the previous startup's dbHash resolution
    \* ---- the running process
    status,          \* stage -> "idle" | "pending" | "ok" | "failed"
    dbPc,            \* initDbHashAndFirstRun: "idle" | "read" | "add" | "notify" | "done" | "failed"
    hash,            \* var hash = uuid.v4() of the otherwise-handler
    dbHash,          \* module variable dbHash
    run,             \* counters of this startup's dbHash resolution
    serverOps,       \* mutations applied to the server handle, in order
    middlewareArg,   \* the dbHash arguments middleware(server, dbHash) was invoked with
    logged,          \* the arguments errors.logErrorAndExit was called with
    unlink,          \* fs.unlink: [state |-> "none" | "pending" | "done", path, err of the callback]
    listens,         \* the targets server.listen was called with
    bindState,       \* "none" | "pending" | "bound"
    chmods,          \* the paths fs.chmod was called with
    chmodState,      \* "none" | "issued" | "ok" | "ENOENT"
    startGhostRuns,  \* number of times startGhost ran
    sigintHandlers,  \* number of handlers registered with process.on('SIGINT')
    shutdownLog,     \* shutdown messages printed by a SIGINT handler
    exitVia,         \* "none" | "logErrorAndExit" | "version" | "sigint" | "signal"
    exitCodes,       \* the arguments process.exit was called with in this file
    \* ---- a second process started on the same installation
    peer             \* its initDbHashAndFirstRun: [pc, hash, dbHash, fresh]

instVars == <<nodeOk, nodeEnv, server, settingsDbHash, notifications, uuidCount, sockFiles, runNo, prev>>
dbVars == <<dbPc, hash, dbHash, run>>
srvVars == <<serverOps, middlewareArg>>
lsnVars == <<unlink, listens, bindState, chmods, chmodState, startGhostRuns>>
endVars == <<logged, sigintHandlers, shutdownLog, exitVia, exitCodes>>
vars == <<instVars, status, dbVars, srvVars, lsnVars, endVars, peer>>

\* The stages of the initialization chain, by the call that starts them.
Stages == {"models", "paths", "defaults", "api", "theme", "dbhash", "perms",
           "mail", "configure", "plugins"}

\* Variant: the API routes are registered ahead of the middleware.
ConfigureOpsRoutesFirst == <<"mime", "view engine", "admin view engine", "loadCoreHelpers",
                             "routes.api", "middleware", "routes.admin", "routes.frontend">>

\* The mutations of the server handle made by the configuration callback, in source order.
ConfigureOps == <<"mime", "view engine", "admin view engine", "loadCoreHelpers",
                  "middleware", "routes.api", "routes.admin", "routes.frontend">>

\* An empty directory listing of socket files.
NoFiles == [p \in {} |-> "stale"]

NoRun == [hadHash |-> FALSE, gen |-> 0, adds |-> 0, notifs |-> 0, fail |-> FALSE,
          read |-> "", failedCall |-> ""]
NoPrev == [hadHash |-> FALSE, gen |-> 0, adds |-> 0, notifs |-> 0, fail |-> FALSE, dbOk |-> FALSE]

\* A second process that has not reached initDbHashAndFirstRun.
NoPeer == [pc |-> "idle", hash |-> NoHash, dbHash |-> NoHash, fresh |-> FALSE]

\* The state of a process that has loaded the module and not yet called init().
ProcInit ==
    /\ status = [s \in Stages |-> "idle"]
    /\ dbPc = "idle"
    /\ hash = NoHash
    /\ dbHash = NoHash
    /\ serverOps = <<>>
    /\ middlewareArg = <<>>
    /\ logged = <<>>
    /\ unlink = [state |-> "none", path |-> "", err |-> ""]
    /\ listens = <<>>
    /\ bindState = "none"
    /\ chmods = <<>>
    /\ chmodState = "none"
    /\ startGhostRuns = 0
    /\ sigintHandlers = 0
    /\ shutdownLog = <<>>
    /\ exitVia = "none"
    /\ exitCodes = <<>>

Init ==
    /\ nodeOk \in BOOLEAN
    /\ nodeEnv \in Envs
    /\ server \in ServerConfigs
    /\ settingsDbHash = <<>>
    /\ notifications = 0
    /\ uuidCount = 0
    /\ sockFiles \in {NoFiles} \cup
                     (IF Truthy(getSocket(server, nodeEnv))
                      THEN {[p \in {getSocket(server, nodeEnv).s} |-> "stale"]}
                      ELSE {})
    /\ runNo = 1
    /\ prev = NoPrev
    /\ run = NoRun
    /\ ProcInit
    /\ peer = NoPeer

Alive == exitVia = "none"

\* Variant: the continuation of a join fires on the first fulfilment.
JoinFirstFulfilled(a, b) == a = "ok" \/ b = "ok"

\* when.join(a, b) is fulfilled once both inputs are
JoinFulfilled(a, b) == a = "ok" /\ b = "ok"

\* Stage s is fulfilled; the continuation of its join (with `partner`) starts `next`.
Fulfil(st, s, partner, next) ==
    LET st1 == [st EXCEPT ![s] = "ok"]
    IN  IF JoinFulfilled(st1[s], st1[partner])
        THEN [st1 EXCEPT ![next] = "pending"]
        ELSE st1

\* Variant: the callback does not return the promise of its stage, so the
\* next link starts while the stage is still in flight.
ThenNoWait(st, s, next) == [st EXCEPT ![next] = "pending"]

\* A stage of a plain .then() link is fulfilled; its continuation starts `next`.
Then(st, s, next) == [st EXCEPT ![s] = "ok", ![next] = "pending"]

\* Variant: the rejection handler is attached above mailer.init.
RoutedAboveMail(s) == s \in {"models", "paths", "defaults", "api", "theme", "dbhash", "perms"}

\* The stages whose rejection travels down the chain to the rejection handler
\* passed to the last .then(): everything returned into the chain above it.
Routed(s) == s \in {"models", "paths", "defaults", "api", "theme", "dbhash", "perms", "mail"}

\* errors.logErrorAndExit: logs the error and terminates the process
logErrorAndExit(err) ==
    /\ logged' = Append(logged, err)
    /\ exitVia' = "logErrorAndExit"
    /\ UNCHANGED <<sigintHandlers, shutdownLog, exitCodes>>

\* function (err) { errors.logErrorAndExit(err); }
OnRejected(err) == logErrorAndExit(err)

\* Stage s rejects.
Reject(s) ==
    /\ status' = [status EXCEPT ![s] = "failed"]
    /\ IF Routed(s) THEN OnRejected(s) ELSE UNCHANGED endVars

Outcomes == {"ok", "failed"}

\* init(app) -> setup(app): the two inputs of the first when.join are started
Setup ==
    /\ Alive
    /\ status["models"] = "idle"
    /\ status' = [status EXCEPT !["models"] = "pending", !["paths"] = "pending"]
    /\ UNCHANGED <<instVars, dbVars, srvVars, lsnVars, endVars>>
    /\ UNCHANGED peer

ModelsInitDone(o) ==
    /\ Alive
    /\ status["models"] = "pending"
    /\ IF o = "ok"
       THEN status' = Fulfil(status, "models", "paths", "defaults") /\ UNCHANGED endVars
       ELSE Reject("models")
    /\ UNCHANGED <<instVars, dbVars, srvVars, lsnVars>>
    /\ UNCHANGED peer

UpdatePathsDone(o) ==
    /\ Alive
    /\ status["paths"] = "pending"
    /\ IF o = "ok"
       THEN status' = Fulfil(status, "paths", "models", "defaults") /\ UNCHANGED endVars
       ELSE Reject("paths")
    /\ UNCHANGED <<instVars, dbVars, srvVars, lsnVars>>
    /\ UNCHANGED peer

PopulateDefaultsDone(o) ==
    /\ Alive
    /\ status["defaults"] = "pending"
    /\ IF o = "ok"
       THEN status' = Then(status, "defaults", "api") /\ UNCHANGED endVars
       ELSE Reject("defaults")
    /\ UNCHANGED <<instVars, dbVars, srvVars, lsnVars>>
    /\ UNCHANGED peer

ApiInitDone(o) ==
    /\ Alive
    /\ status["api"] = "pending"
    /\ IF o = "ok"
       THEN status' = Then(status, "api", "theme") /\ UNCHANGED endVars
       ELSE Reject("api")
    /\ UNCHANGED <<instVars, dbVars, srvVars, lsnVars>>
    /\ UNCHANGED peer

\* config.theme.update settles; on success the second when.join starts
\* initDbHashAndFirstRun (which calls models.Settings.read) and permissions.init
ThemeUpdateDone(o) ==
    /\ Alive
    /\ status["theme"] = "pending"
    /\ IF o = "ok"
       THEN /\ status' = [status EXCEPT !["theme"] = "ok", !["dbhash"] = "pending",
                                         !["perms"] = "pending"]
            /\ dbPc' = "read"
            /\ UNCHANGED endVars
       ELSE Reject("theme") /\ UNCHANGED dbPc
    /\ UNCHANGED <<instVars, hash, dbHash, run, srvVars, lsnVars>>
    /\ UNCHANGED peer

PermissionsInitDone(o) ==
    /\ Alive
    /\ status["perms"] = "pending"
    /\ IF o = "ok"
       THEN status' = Fulfil(status, "perms", "dbhash", "mail") /\ UNCHANGED endVars
       ELSE Reject("perms")
    /\ UNCHANGED <<instVars, dbVars, srvVars, lsnVars>>
    /\ UNCHANGED peer

(***************************************************************************)
(* initDbHashAndFirstRun                                                   *)
(***************************************************************************)

\* What models.Settings.read('dbHash') can do: resolve to a stored row,
\* resolve to null (no row), or reject.
ReadOutcomes == {"record", "null", "reject"}

\* Variant: the stored value is never taken, every startup is a first run.
HasValueNever(o) == FALSE

\* The fulfilment handler `dbHash = hash.attributes.value` returns normally
\* exactly when read resolved to a row; otherwise the promise is rejected
\* (by read itself, or by the TypeError of reading null.attributes) and the
\* otherwise-handler runs.
HasValue(o) == o = "record"

\* Variant: the otherwise-handler recovers from "no row" only.
RecoversNotFound(o) == o # "reject"

\* .otherwise(function (error) {...}) takes every rejection, whatever its cause
Recovers(o) == TRUE

\* Variant: doFirstRun is chained to both outcomes of Settings.add.
AddContinuesAlways(o) == TRUE

\* .then(function () { dbHash = hash; ... }).then(doFirstRun) runs only when
\* Settings.add was fulfilled
AddContinues(o) == o = "ok"

\* Variant: the generated hash is returned but never kept.
FirstRunDbHashUnset(h) == NoHash

\* dbHash = hash;
FirstRunDbHash(h) == h

\* The initDbHashAndFirstRun promise is fulfilled: its join may continue.
DbHashFulfilled ==
    /\ dbPc' = "done"
    /\ status' = Fulfil(status, "dbhash", "perms", "mail")
    /\ UNCHANGED endVars

\* The initDbHashAndFirstRun promise is rejected.
DbHashRejected ==
    /\ dbPc' = "failed"
    /\ Reject("dbhash")

SettingsReadDone(o) ==
    /\ Alive
    /\ dbPc = "read"
    /\ o = "record" => settingsDbHash # <<>>
    /\ o = "null" => settingsDbHash = <<>>
    /\ IF HasValue(o)
       THEN /\ \E i \in 1..Len(settingsDbHash) : dbHash' = settingsDbHash[i]
            /\ run' = [run EXCEPT !.read = o]
            /\ DbHashFulfilled
            /\ UNCHANGED <<hash, uuidCount>>
       ELSE IF Recovers(o)
       THEN \* var hash = uuid.v4(); models.Settings.add({key: 'dbHash', value: hash, ...})
            /\ hash' = uuidCount + 1
            /\ uuidCount' = uuidCount + 1
            /\ run' = [run EXCEPT !.read = o, !.gen = @ + 1, !.fail = @ \/ (o = "reject")]
            /\ dbPc' = "add"
            /\ UNCHANGED <<dbHash, status, endVars>>
       ELSE /\ run' = [run EXCEPT !.read = o, !.fail = TRUE]
            /\ DbHashRejected
            /\ UNCHANGED <<hash, uuidCount, dbHash>>
    /\ UNCHANGED <<nodeOk, nodeEnv, server, settingsDbHash, notifications, sockFiles, runNo, prev,
                   srvVars, lsnVars>>
    /\ UNCHANGED peer

\* models.Settings.add settles; on success dbHash = hash and doFirstRun
\* calls api.notifications.add
SettingsAddDone(o) ==
    /\ Alive
    /\ dbPc = "add"
    /\ settingsDbHash' = IF o = "ok" THEN Append(settingsDbHash, hash) ELSE settingsDbHash
    /\ run' = IF o = "ok"
              THEN [run EXCEPT !.adds = @ + 1]
              ELSE [run EXCEPT !.fail = TRUE, !.failedCall = "add"]
    /\ IF AddContinues(o)
       THEN /\ dbHash' = FirstRunDbHash(hash)
            /\ dbPc' = "notify"
            /\ UNCHANGED <<status, endVars>>
       ELSE /\ DbHashRejected
            /\ UNCHANGED dbHash
    /\ UNCHANGED <<nodeOk, nodeEnv, server, notifications, uuidCount, sockFiles, runNo, prev,
                   hash, srvVars, lsnVars>>
    /\ UNCHANGED peer

\* api.notifications.add({... id: 'ghost-first-run'}) of doFirstRun settles
NotificationsAddDone(o) ==
    /\ Alive
    /\ dbPc = "notify"
    /\ IF o = "ok"
       THEN /\ notifications' = notifications + 1
            /\ run' = [run EXCEPT !.notifs = @ + 1]
            /\ DbHashFulfilled
       ELSE /\ run' = [run EXCEPT !.fail = TRUE, !.failedCall = "notify"]
            /\ DbHashRejected
            /\ UNCHANGED notifications
    /\ UNCHANGED <<nodeOk, nodeEnv, server, settingsDbHash, uuidCount, sockFiles, runNo, prev,
                   hash, dbHash, srvVars, lsnVars>>
    /\ UNCHANGED peer

(***************************************************************************)
(* Configuration callback, plugins and listening                           *)
(***************************************************************************)

MiddlewareIdx == CHOOSE i \in 1..Len(ConfigureOps) : ConfigureOps[i] = "middleware"

\* mailer.init settles.  On success the configuration callback runs: it
\* mutates the server handle in source order and then calls plugins.init();
\* k = 0 when it runs to its end, otherwise the k-th mutation throws.
MailerInitDone(o, k) ==
    /\ Alive
    /\ status["mail"] = "pending"
    /\ IF o = "ok"
       THEN /\ serverOps' = IF k = 0 THEN ConfigureOps ELSE SubSeq(ConfigureOps, 1, k - 1)
            /\ middlewareArg' = IF k = 0 \/ k >= MiddlewareIdx THEN <<dbHash>> ELSE <<>>
            /\ IF k = 0
               THEN /\ status' = [status EXCEPT !["mail"] = "ok", !["configure"] = "ok",
                                                 !["plugins"] = "pending"]
                    /\ UNCHANGED endVars
               ELSE /\ status' = [status EXCEPT !["mail"] = "ok", !["configure"] = "failed"]
                    /\ UNCHANGED endVars
       ELSE /\ k = 0
            /\ Reject("mail")
            /\ UNCHANGED srvVars
    /\ UNCHANGED <<instVars, dbVars, lsnVars>>
    /\ UNCHANGED peer

SocketTarget(p) == [kind |-> "socket", path |-> p, host |-> "", port |-> ""]
TcpTarget(srv) == [kind |-> "tcp", path |-> "", host |-> srv.host, port |-> srv.port]

\* Variant: the server is started whatever plugins.init() does.
StartsServerAlways(o) == TRUE

\* The callback passed to plugins.init().then() runs only on fulfilment.
StartsServer(o) == o = "ok"

\* Variant: socket mode is chosen by the presence of the key alone.
UseSocketIfKey(srv, env) == srv.hasSocket

\* if (getSocket())
UseSocket(srv, env) == Truthy(getSocket(srv, env))

\* Variant: the default path is unlinked, whatever path is configured.
UnlinkDefaultPath(srv, env) == DefaultSocketPath(env)

\* The path handed to fs.unlink
UnlinkTarget(srv, env) == getSocket(srv, env).s

\* plugins.init settles; on success either fs.unlink or server.listen is called.
\* A rejection has no handler.
PluginsInitDone(o) ==
    /\ Alive
    /\ status["plugins"] = "pending"
    /\ status' = [status EXCEPT !["plugins"] = o]
    /\ IF StartsServer(o)
       THEN IF UseSocket(server, nodeEnv)
            THEN /\ unlink' = [state |-> "pending", path |-> UnlinkTarget(server, nodeEnv), err |-> ""]
                 /\ UNCHANGED <<listens, bindState>>
            ELSE /\ listens' = Append(listens, TcpTarget(server))
                 /\ bindState' = "pending"
                 /\ UNCHANGED unlink
       ELSE UNCHANGED <<unlink, listens, bindState>>
    /\ UNCHANGED <<instVars, dbVars, srvVars, chmods, chmodState, startGhostRuns, endVars>>
    /\ UNCHANGED peer

Remove(f, p) == [q \in DOMAIN f \ {p} |-> f[q]]
Put(f, p, v) == [q \in DOMAIN f \cup {p} |-> IF q = p THEN v ELSE f[q]]

\* fs.unlink completes (removing the file if there is one; its error is
\* ignored) and calls back: server.listen(getSocket(), startGhost) and
\* fs.chmod(getSocket(), '0744') are issued in the same turn.
UnlinkCallback ==
    /\ Alive
    /\ unlink.state = "pending"
    /\ unlink' = [unlink EXCEPT !.state = "done",
                                 !.err = IF unlink.path \in DOMAIN sockFiles THEN "null" ELSE "ENOENT"]
    /\ sockFiles' = Remove(sockFiles, unlink.path)
    /\ listens' = Append(listens, SocketTarget(getSocket(server, nodeEnv).s))
    /\ bindState' = "pending"
    /\ chmods' = Append(chmods, getSocket(server, nodeEnv).s)
    /\ chmodState' = "issued"
    /\ UNCHANGED <<nodeOk, nodeEnv, server, settingsDbHash, notifications, uuidCount, runNo, prev,
                   status, dbVars, srvVars, startGhostRuns, endVars>>
    /\ UNCHANGED peer

LastListen == listens[Len(listens)]

\* The listener binds: in socket mode this creates the socket file.  A path
\* that is occupied cannot be bound.
BindComplete ==
    /\ Alive
    /\ bindState = "pending"
    /\ bindState' = "bound"
    /\ IF LastListen.kind = "socket"
       THEN /\ LastListen.path \notin DOMAIN sockFiles
            /\ sockFiles' = Put(sockFiles, LastListen.path, "created")
       ELSE UNCHANGED sockFiles
    /\ UNCHANGED <<nodeOk, nodeEnv, server, settingsDbHash, notifications, uuidCount, runNo, prev,
                   status, dbVars, srvVars, unlink, listens, chmods, chmodState, startGhostRuns,
                   endVars>>
    /\ UNCHANGED peer

\* The fs.chmod request issued right after server.listen is carried out.
ChmodApply ==
    /\ Alive
    /\ chmodState = "issued"
    /\ LET p == chmods[Len(chmods)]
       IN  IF p \in DOMAIN sockFiles
           THEN sockFiles' = Put(sockFiles, p, "chmodded") /\ chmodState' = "ok"
           ELSE UNCHANGED sockFiles /\ chmodState' = "ENOENT"
    /\ UNCHANGED <<nodeOk, nodeEnv, server, settingsDbHash, notifications, uuidCount, runNo, prev,
                   status, dbVars, srvVars, unlink, listens, bindState, chmods, startGhostRuns,
                   endVars>>
    /\ UNCHANGED peer

\* startGhost, the callback of server.listen: version guard, startup
\* message, SIGINT handler
StartGhost ==
    /\ Alive
    /\ bindState = "bound"
    /\ startGhostRuns < Len(listens)
    /\ startGhostRuns' = startGhostRuns + 1
    /\ IF ~nodeOk
       THEN /\ exitCodes' = Append(exitCodes, 0)
            /\ exitVia' = "version"
            /\ UNCHANGED <<sigintHandlers, shutdownLog, logged>>
       ELSE /\ sigintHandlers' = sigintHandlers + 1
            /\ UNCHANGED <<exitCodes, exitVia, shutdownLog, logged>>
    /\ UNCHANGED <<instVars, status, dbVars, srvVars, unlink, listens, bindState, chmods, chmodState>>
    /\ UNCHANGED peer

\* Math.round of an uptime given in half seconds
Round(u) == (u + 1) \div 2

\* Variant: the production message is printed in every environment.
ShutdownMessageProduction(env, u) == [kind |-> "offline", secs |-> <<>>]

\* The message of the SIGINT handler that startGhost registers: the
\* production branch prints no figure, the other one Math.round(process.uptime())
ShutdownMessage(env, u) ==
    IF env = "production"
    THEN [kind |-> "offline", secs |-> <<>>]
    ELSE [kind |-> "uptime", secs |-> <<Round(u)>>]

\* SIGINT is delivered when process.uptime() is u half seconds: the
\* registered handler prints its message and calls process.exit(0); with no
\* handler the signal ends the process.
Sigint(u) ==
    /\ Alive
    /\ IF sigintHandlers = 0
       THEN /\ exitVia' = "signal"
            /\ UNCHANGED <<shutdownLog, exitCodes>>
       ELSE /\ shutdownLog' = Append(shutdownLog, ShutdownMessage(nodeEnv, u))
            /\ exitCodes' = Append(exitCodes, 0)
            /\ exitVia' = "sigint"
    /\ UNCHANGED <<instVars, status, dbVars, srvVars, lsnVars, logged, sigintHandlers>>
    /\ UNCHANGED peer

\* A new process: the module is loaded again, every module variable is fresh.
ProcReset ==
    /\ status' = [s \in Stages |-> "idle"]
    /\ dbPc' = "idle"
    /\ hash' = NoHash
    /\ dbHash' = NoHash
    /\ serverOps' = <<>>
    /\ middlewareArg' = <<>>
    /\ logged' = <<>>
    /\ unlink' = [state |-> "none", path |-> "", err |-> ""]
    /\ listens' = <<>>
    /\ bindState' = "none"
    /\ chmods' = <<>>
    /\ chmodState' = "none"
    /\ startGhostRuns' = 0
    /\ sigintHandlers' = 0
    /\ shutdownLog' = <<>>
    /\ exitVia' = "none"
    /\ exitCodes' = <<>>

\* The terminated process is started again on the same installation.
Restart ==
    /\ ~Alive
    /\ runNo < MaxRuns
    /\ runNo' = runNo + 1
    /\ prev' = [hadHash |-> run.hadHash, gen |-> run.gen, adds |-> run.adds,
                notifs |-> run.notifs, fail |-> run.fail, dbOk |-> status["dbhash"] = "ok"]
    /\ run' = [NoRun EXCEPT !.hadHash = settingsDbHash # <<>>]
    /\ sockFiles' = [p \in DOMAIN sockFiles |-> "stale"]
    /\ ProcReset
    /\ UNCHANGED <<nodeOk, nodeEnv, server, settingsDbHash, notifications, uuidCount>>
    /\ UNCHANGED peer

(***************************************************************************)
(* A second process of the same installation, started while the first      *)
(* startup is under way: its initDbHashAndFirstRun runs the same code      *)
(* against the same settings and notifications.                            *)
(***************************************************************************)

peerKeeps == <<nodeOk, nodeEnv, server, sockFiles, runNo, prev, status, dbVars, srvVars,
               lsnVars, endVars>>

\* The second process calls initDbHashAndFirstRun: models.Settings.read is issued.
PeerStart ==
    /\ Alive
    /\ runNo = 1
    /\ peer.pc = "idle"
    /\ peer' = [peer EXCEPT !.pc = "read", !.fresh = settingsDbHash = <<>>]
    /\ UNCHANGED <<peerKeeps, settingsDbHash, notifications, uuidCount>>

PeerReadDone(o) ==
    /\ peer.pc = "read"
    /\ o = "record" => settingsDbHash # <<>>
    /\ o = "null" => settingsDbHash = <<>>
    /\ IF HasValue(o)
       THEN /\ \E i \in 1..Len(settingsDbHash) :
                  peer' = [peer EXCEPT !.pc = "done", !.dbHash = settingsDbHash[i]]
            /\ UNCHANGED uuidCount
       ELSE IF Recovers(o)
       THEN /\ peer' = [peer EXCEPT !.pc = "add", !.hash = uuidCount + 1]
            /\ uuidCount' = uuidCount + 1
       ELSE /\ peer' = [peer EXCEPT !.pc = "failed"]
            /\ UNCHANGED uuidCount
    /\ UNCHANGED <<peerKeeps, settingsDbHash, notifications>>

PeerAddDone(o) ==
    /\ peer.pc = "add"
    /\ settingsDbHash' = IF o = "ok" THEN Append(settingsDbHash, peer.hash) ELSE settingsDbHash
    /\ IF AddContinues(o)
       THEN peer' = [peer EXCEPT !.pc = "notify", !.dbHash = FirstRunDbHash(peer.hash)]
       ELSE peer' = [peer EXCEPT !.pc = "failed"]
    /\ UNCHANGED <<peerKeeps, notifications, uuidCount>>

PeerNotifyDone(o) ==
    /\ peer.pc = "notify"
    /\ IF o = "ok"
       THEN notifications' = notifications + 1 /\ peer' = [peer EXCEPT !.pc = "done"]
       ELSE UNCHANGED notifications /\ peer' = [peer EXCEPT !.pc = "failed"]
    /\ UNCHANGED <<peerKeeps, settingsDbHash, uuidCount>>

PeerNext ==
    \/ PeerStart
    \/ \E o \in ReadOutcomes : PeerReadDone(o)
    \/ \E o \in Outcomes : PeerAddDone(o)
    \/ \E o \in Outcomes : PeerNotifyDone(o)

\* The steps of the running process.
RunNext ==
    \/ Setup
    \/ \E o \in Outcomes : ModelsInitDone(o)
    \/ \E o \in Outcomes : UpdatePathsDone(o)
    \/ \E o \in Outcomes : PopulateDefaultsDone(o)
    \/ \E o \in Outcomes : ApiInitDone(o)
    \/ \E o \in Outcomes : ThemeUpdateDone(o)
    \/ \E o \in ReadOutcomes : SettingsReadDone(o)
    \/ \E o \in Outcomes : SettingsAddDone(o)
    \/ \E o \in Outcomes : NotificationsAddDone(o)
    \/ \E o \in Outcomes : PermissionsInitDone(o)
    \/ \E o \in Outcomes, k \in 0..Len(ConfigureOps) : MailerInitDone(o, k)
    \/ \E o \in Outcomes : PluginsInitDone(o)
    \/ UnlinkCallback
    \/ BindComplete
    \/ ChmodApply
    \/ StartGhost

Next == RunNext \/ (\E u \in 0..MaxUptime : Sigint(u)) \/ Restart

Spec == Init /\ [][Next]_vars

\* The installation with a second process started during the first startup.
ConcNext == Next \/ PeerNext

ConcSpec == Init /\ [][ConcNext]_vars

\* Every started stage settles and every queued callback runs.
FairSpec == Spec /\ WF_vars(RunNext)

TypeOK ==
    /\ nodeOk \in BOOLEAN
    /\ nodeEnv \in Envs
    /\ server \in ServerConfigs
    /\ status \in [Stages -> {"idle", "pending", "ok", "failed"}]
    /\ dbPc \in {"idle", "read", "add", "notify", "done", "failed"}
    /\ runNo \in 1..MaxRuns
    /\ uuidCount \in 0..(MaxRuns + 1)
    /\ exitVia \in {"none", "logErrorAndExit", "version", "sigint", "signal"}

(***************************************************************************)
(* Properties                                                              *)
(***************************************************************************)

AllStagesOk == \A s \in Stages : status[s] = "ok"

\* The listener is bound and startGhost has run.
Listening == bindState = "bound" /\ startGhostRuns >= 1

\* A callback of the listening phase is still to come.
CallbackPending ==
    \/ unlink.state = "pending"
    \/ bindState = "pending"
    \/ bindState = "bound" /\ startGhostRuns < Len(listens)

\* Position of a stage in the chain; the two inputs of a join share one.
Rank(s) ==
    CASE s \in {"models", "paths"} -> 1
      [] s = "defaults" -> 2
      [] s = "api" -> 3
      [] s = "theme" -> 4
      [] s \in {"dbhash", "perms"} -> 5
      [] s = "mail" -> 6
      [] s = "configure" -> 7
      [] s = "plugins" -> 8

\* C1: two consecutive startups, every persistence call succeeding, the
\* first one finding no dbHash: the first generated one hash, persisted one
\* setting and added one first-run notification; the second added nothing
\* and holds the value the first one persisted.
C1_Case ==
    /\ runNo >= 2
    /\ ~prev.hadHash /\ prev.dbOk /\ ~prev.fail
    /\ status["dbhash"] = "ok" /\ ~run.fail

C1_FirstRunOnce ==
    C1_Case =>
        /\ prev.gen = 1 /\ prev.adds = 1 /\ prev.notifs = 1
        /\ run.gen = 0 /\ run.adds = 0 /\ run.notifs = 0
        /\ Len(settingsDbHash) = 1 /\ notifications = 1
        /\ dbHash = settingsDbHash[1]

C1_Witness == C1_Case /\ dbHash # NoHash

\* C2 (as claimed): with an unsupported runtime version server.listen is
\* never called.
C2_Original == ~nodeOk => listens = <<>>

\* C3: a rejection of any stage from models.init to mailer.init reaches
\* errors.logErrorAndExit exactly once, with that error; no later stage is
\* started, the server handle is not touched and nothing listens.
C3_Stages == {"models", "paths", "defaults", "api", "theme", "dbhash", "perms", "mail"}

C3_FailFast ==
    /\ Len(logged) <= 1
    /\ \A s \in C3_Stages :
         status[s] = "failed" =>
            /\ logged = <<s>>
            /\ exitVia = "logErrorAndExit"
            /\ \A t \in Stages : Rank(t) > Rank(s) => status[t] = "idle"
            /\ serverOps = <<>> /\ middlewareArg = <<>>
            /\ listens = <<>> /\ unlink.state = "none" /\ bindState = "none"

C3_Witness == status["perms"] = "failed" /\ dbPc = "add" /\ logged = <<"perms">>

\* C4 (as claimed): once setup has begun the run eventually listens or is
\* terminated.
C4_Original == (status["models"] # "idle") ~> (Listening \/ ~Alive)

\* C5 (as claimed): once a dbHash is persisted no later step generates or
\* persists another one, and a dbHash held in memory is the persisted one.
C5_Original ==
    [][settingsDbHash # <<>> =>
          /\ uuidCount' = uuidCount
          /\ settingsDbHash' = settingsDbHash
          /\ (dbHash' # NoHash => dbHash' = settingsDbHash[1])]_vars

\* C6: with a supported version and every stage fulfilled, server.listen is
\* called exactly once, on the socket path when getSocket() is truthy and on
\* port and host otherwise, and startGhost runs exactly once, as its callback.
C6_ListenOnce ==
    /\ Len(listens) <= 1
    /\ startGhostRuns <= Len(listens)
    /\ startGhostRuns >= 1 => bindState = "bound"
    /\ listens # <<>> =>
          listens[1] = IF Truthy(getSocket(server, nodeEnv))
                       THEN SocketTarget(getSocket(server, nodeEnv).s)
                       ELSE TcpTarget(server)
    /\ (nodeOk /\ AllStagesOk /\ ~CallbackPending /\ exitVia \in {"none", "sigint"}) =>
          Len(listens) = 1 /\ startGhostRuns = 1

C6_Witness ==
    /\ nodeOk /\ AllStagesOk /\ ~CallbackPending /\ Alive
    /\ listens # <<>> /\ listens[1].kind = "socket"

\* C7: in socket mode fs.unlink has called back before server.listen is
\* called; the unlinked, the bound and the chmod'ed path are one value; the
\* file at a bound path is the listener's own, never a stale one.
C7_UnlinkBeforeListen ==
    Truthy(getSocket(server, nodeEnv)) =>
        /\ listens # <<>> => unlink.state = "done"
        /\ \A i \in 1..Len(listens) :
              listens[i].kind = "socket" /\ listens[i].path = unlink.path
        /\ \A i \in 1..Len(chmods) : chmods[i] = unlink.path
        /\ unlink.state # "none" => unlink.path = getSocket(server, nodeEnv).s
        /\ bindState = "bound" =>
              /\ unlink.path \in DOMAIN sockFiles
              /\ sockFiles[unlink.path] # "stale"

C7_Witness ==
    /\ unlink.state = "done" /\ unlink.err = "null"
    /\ bindState = "bound" /\ listens[1].path = "/tmp/ghost.sock"

\* C8 (as claimed): fs.chmod is carried out only once the bind has created
\* the socket file, never against a path where no socket exists.
C8_Original ==
    /\ chmodState # "ENOENT"
    /\ chmodState = "ok" => bindState = "bound"

\* C9: models.init and updatePaths are started together and populateDefaults
\* only after both are fulfilled; initDbHashAndFirstRun and permissions.init
\* are started together, after theme.update, and mailer.init only after both
\* are fulfilled.
C9_FanOutFanIn ==
    /\ (status["models"] = "idle") <=> (status["paths"] = "idle")
    /\ status["defaults"] # "idle" => status["models"] = "ok" /\ status["paths"] = "ok"
    /\ (status["dbhash"] = "idle") <=> (status["perms"] = "idle")
    /\ status["dbhash"] # "idle" => status["theme"] = "ok"
    /\ status["mail"] # "idle" => status["dbhash"] = "ok" /\ status["perms"] = "ok"

C9_Witness == status["mail"] = "pending" /\ run.notifs = 1

\* C10: nothing of the listening phase (unlink, listen, bind) happens unless
\* every stage, the configuration callback and plugins.init included, has
\* been fulfilled.
C10_NoListenBeforeInit ==
    (listens # <<>> \/ unlink.state # "none" \/ bindState # "none") =>
        AllStagesOk /\ serverOps = ConfigureOps

C10_Witness == bindState = "bound" /\ listens[1].kind = "tcp"

\* C11: after startGhost has run on a supported version exactly one SIGINT
\* handler is registered; a SIGINT then prints one shutdown message and exits
\* with code 0, in either environment; outside production the message
\* carries the rounded uptime, which is not negative.
C11_GracefulShutdown ==
    (nodeOk /\ startGhostRuns >= 1) =>
        /\ sigintHandlers = 1
        /\ exitVia \in {"none", "sigint"}
        /\ exitVia = "none" => shutdownLog = <<>> /\ exitCodes = <<>>
        /\ exitVia = "sigint" =>
              /\ exitCodes = <<0>>
              /\ Len(shutdownLog) = 1
              /\ (nodeEnv = "production") <=> (shutdownLog[1].kind = "offline")
              /\ nodeEnv # "production" =>
                    /\ shutdownLog[1].kind = "uptime"
                    /\ Len(shutdownLog[1].secs) = 1
                    /\ shutdownLog[1].secs[1] >= 0

C11_Witness ==
    /\ exitVia = "sigint" /\ nodeEnv = "development"
    /\ shutdownLog[1].secs = <<2>>

\* C12 (as claimed): a string under the 'socket' key is the listening
\* target, a non-string gives the default path, no key gives host and port.
C12_Original ==
    listens # <<>> =>
        /\ (server.hasSocket /\ isString(server.socket)) =>
              listens[1] = SocketTarget(server.socket.s)
        /\ (server.hasSocket /\ ~isString(server.socket)) =>
              listens[1] = SocketTarget(DefaultSocketPath(nodeEnv))
        /\ ~server.hasSocket =>
              getSocket(server, nodeEnv) = JsFalse /\ listens[1] = TcpTarget(server)

\* C12: getSocket() depends on config().server and NODE_ENV only: a string
\* under the 'socket' key is returned as it is, a non-string gives the
\* default path, no key gives false.  The listening target is that path
\* unless it is falsy: with no key, and with the empty string, the target
\* is the configured host and port.
C12_TargetByConfig ==
    /\ (server.hasSocket /\ isString(server.socket)) =>
          getSocket(server, nodeEnv) = server.socket
    /\ (server.hasSocket /\ ~isString(server.socket)) =>
          getSocket(server, nodeEnv) = JsStr(DefaultSocketPath(nodeEnv))
    /\ ~server.hasSocket => getSocket(server, nodeEnv) = JsFalse
    /\ listens # <<>> =>
          /\ (server.hasSocket /\ isString(server.socket) /\ server.socket.s # "") =>
                listens[1] = SocketTarget(server.socket.s)
          /\ (server.hasSocket /\ isString(server.socket) /\ server.socket.s = "") =>
                listens[1] = TcpTarget(server)
          /\ (server.hasSocket /\ ~isString(server.socket)) =>
                listens[1] = SocketTarget(DefaultSocketPath(nodeEnv))
          /\ ~server.hasSocket => listens[1] = TcpTarget(server)

C12_Witness ==
    /\ server.hasSocket /\ isString(server.socket) /\ server.socket.s = ""
    /\ listens # <<>> /\ bindState = "bound"

\* Position of a mutation in the history of the server handle, 0 if absent.
Pos(op) ==
    IF \E i \in 1..Len(serverOps) : serverOps[i] = op
    THEN CHOOSE i \in 1..Len(serverOps) : serverOps[i] = op
    ELSE 0

\* C13: on the server handle the middleware is attached before any route
\* table, the route tables follow in the order API, admin, frontend, and all
\* of it is in place when plugins.init is started and when server.listen is
\* called.
C13_MiddlewareBeforeRoutes ==
    /\ \A r \in {"routes.api", "routes.admin", "routes.frontend"} :
          Pos(r) > 0 => Pos("middleware") > 0 /\ Pos("middleware") < Pos(r)
    /\ Pos("routes.admin") > 0 => Pos("routes.api") > 0 /\ Pos("routes.api") < Pos("routes.admin")
    /\ Pos("routes.frontend") > 0 =>
          Pos("routes.admin") > 0 /\ Pos("routes.admin") < Pos("routes.frontend")
    /\ (status["plugins"] # "idle" \/ listens # <<>>) =>
          /\ Pos("middleware") > 0
          /\ Pos("routes.frontend") > 0
          /\ Len(middlewareArg) = 1

C13_Witness == listens # <<>> /\ Pos("routes.frontend") = Len(serverOps) /\ Len(serverOps) > 0

\* C15: a read that rejects, or resolves to nothing readable, leads to the
\* generation path (uuid, Settings.add, doFirstRun) and is never what
\* rejects initDbHashAndFirstRun: only a failed Settings.add or a failed
\* notification add does.
C15_ReadFailureIsFirstRun ==
    /\ run.read \in {"null", "reject"} =>
          run.gen = 1 /\ dbPc \in {"add", "notify", "done", "failed"}
    /\ run.read = "record" => run.gen = 0 /\ dbPc = "done"
    /\ status["dbhash"] = "failed" =>
          run.failedCall \in {"add", "notify"} /\ logged = <<"dbhash">>
    /\ run.failedCall = "" => status["dbhash"] # "failed" /\ dbPc # "failed"
    /\ run.notifs > 0 => run.adds > 0

C15_Witness == run.hadHash /\ run.read = "reject" /\ dbPc = "done" /\ run.notifs = 1

\* The stages in flight.
InFlight == {s \in Stages : status[s] = "pending"}

\* C16: outside the two joins the chain is sequential: a stage starts only
\* when its predecessor is fulfilled, and at most one stage is in flight,
\* except that models.init may overlap updatePaths and
\* initDbHashAndFirstRun may overlap permissions.init.
C16_Sequential ==
    /\ \/ Cardinality(InFlight) <= 1
       \/ InFlight = {"models", "paths"}
       \/ InFlight = {"dbhash", "perms"}
    /\ status["defaults"] # "idle" => status["models"] = "ok" /\ status["paths"] = "ok"
    /\ status["api"] # "idle" => status["defaults"] = "ok"
    /\ status["theme"] # "idle" => status["api"] = "ok"
    /\ status["dbhash"] # "idle" => status["theme"] = "ok"
    /\ status["perms"] # "idle" => status["theme"] = "ok"
    /\ status["mail"] # "idle" => status["dbhash"] = "ok" /\ status["perms"] = "ok"
    /\ status["configure"] # "idle" => status["mail"] = "ok"
    /\ status["plugins"] # "idle" => status["configure"] = "ok"
    /\ (unlink.state # "none" \/ listens # <<>>) =>
          status["plugins"] = "ok" /\ InFlight = {}

C16_Witness == status["plugins"] = "pending" /\ InFlight = {"plugins"}

\* C17: middleware(server, dbHash) is invoked with a dbHash that is set and
\* is a value persisted in the settings: the one read, on the existing-hash
\* path, and the one generated and added by this startup, on the first-run path.
C17_MiddlewareGetsPersistedHash ==
    /\ Len(middlewareArg) <= 1
    /\ middlewareArg # <<>> =>
          /\ middlewareArg[1] # NoHash
          /\ middlewareArg[1] = dbHash
          /\ \E i \in 1..Len(settingsDbHash) : settingsDbHash[i] = middlewareArg[1]
          /\ run.gen = 0 => run.read = "record"
          /\ run.gen = 1 => run.adds = 1 /\ middlewareArg[1] = hash

C17_Witness == middlewareArg # <<>> /\ run.gen = 1 /\ Pos("middleware") > 0

\* C18: on the first-run path dbHash is assigned, and the notification
\* added, only after Settings.add has succeeded; when Settings.add rejects
\* there is no notification, dbHash stays unset and the rejection reaches
\* errors.logErrorAndExit.
C18_AssignAfterAdd ==
    /\ dbPc = "add" => dbHash = NoHash /\ run.adds = 0 /\ run.notifs = 0
    /\ (run.gen = 1 /\ dbHash # NoHash) => run.adds = 1
    /\ run.notifs > 0 => run.adds = 1
    /\ run.failedCall = "add" =>
          /\ dbHash = NoHash
          /\ run.adds = 0 /\ run.notifs = 0
          /\ dbPc = "failed" /\ status["dbhash"] = "failed"
          /\ logged = <<"dbhash">> /\ exitVia = "logErrorAndExit"

C18_Witness == run.failedCall = "add" /\ status["perms"] = "pending"

\* C19 (as claimed): whenever a dbHash is persisted and a startup has
\* completed, a first-run notification has been created.
C19_Original == (settingsDbHash # <<>> /\ Listening) => notifications >= 1

\* C14 (as claimed): two startups running concurrently on a fresh store
\* persist one dbHash and emit one first-run notification between them, and
\* end with the same dbHash in memory.
C14_Original ==
    (runNo = 1 /\ ~run.hadHash /\ peer.fresh /\ dbPc = "done" /\ peer.pc = "done") =>
        /\ Len(settingsDbHash) = 1
        /\ notifications = 1
        /\ dbHash = peer.dbHash
====
